---- MODULE Spec2Model ----
(***************************************************************************)
(* Model of app/core/planning/plan_creation.py: the outline parser         *)
(* (_parse_outline_to_models), the sprint allocator (_allocate_sprints)    *)
(* and the public entry point (create_plan_from_vision).                   *)
(*                                                                         *)
(* Text is modelled as a sequence of tokens: a line is a sequence of       *)
(* tokens, an outline a sequence of lines.  The keyword prefixes the code  *)
(* tests with startswith ("EPIC:", "STORY:", "Story:", "Description:",     *)
(* "Acceptance criteria:"), the dash, the blank, the digit and the dot are *)
(* tokens of their own, so that strip, lstrip, startswith, replace, split  *)
(* and the regular expressions are computed on the text, as the code does. *)
(***************************************************************************)
EXTENDS Integers, Sequences, FiniteSets, TLC

\* ------------------------------------------------------------------ bounds
MaxLines == 3
MaxRawLines == 2
MaxTasks == 11
\* Calls of _parse_outline_to_models one caller makes in a row.
MaxCalls == 2

\* ------------------------------------------------------- string primitives
WS == {" "}
Digits == {"1", "2"}

RECURSIVE LStripChars(_, _)
LStripChars(s, chars) ==
    IF s # <<>> /\ Head(s) \in chars THEN LStripChars(Tail(s), chars) ELSE s

RECURSIVE RStripChars(_, _)
RStripChars(s, chars) ==
    IF s # <<>> /\ s[Len(s)] \in chars
    THEN RStripChars(SubSeq(s, 1, Len(s) - 1), chars)
    ELSE s

Strip(s) == RStripChars(LStripChars(s, WS), WS)

StartsWith(s, p) == Len(s) >= Len(p) /\ SubSeq(s, 1, Len(p)) = p

Drop(s, n) == SubSeq(s, n + 1, Len(s))

\* str.replace(p, ""): every occurrence of p is removed, left to right
RECURSIVE RemoveAll(_, _)
RemoveAll(s, p) ==
    IF s = <<>> THEN <<>>
    ELSE IF StartsWith(s, p) THEN RemoveAll(Drop(s, Len(p)), p)
    ELSE <<Head(s)>> \o RemoveAll(Tail(s), p)

\* Variant: the numbered title is not split off its number.
AfterFirstDotKeepsAll(s) == s

\* the text after the first "." : s.split(".", 1)[1]
RECURSIVE AfterFirstDot(_)
AfterFirstDot(s) ==
    IF s = <<>> THEN <<>>
    ELSE IF Head(s) = "." THEN Tail(s)
    ELSE AfterFirstDot(Tail(s))

\* re.match(r"^\d+\.\s+", s)
NumberedHeader(s) ==
    LET rest == LStripChars(s, Digits)
    IN  /\ Len(rest) < Len(s)
        /\ StartsWith(rest, <<".", " ">>)

\* ------------------------------------------------------------ identifiers
\* Variant: the counters start at 0 (itertools.count()).
generate_id_from_zero(prefix, counter) == <<prefix, counter - 1>>

generate_id(prefix, counter) == <<prefix, counter>>

None == [none |-> TRUE]

\* ------------------------------------------------------------ the entities
NewEpic(id, title, description, priority) ==
    [id |-> id, title |-> title, description |-> description,
     priority |-> priority, status |-> "planned", stories |-> <<>>]

NewStory(id, epic_id, title) ==
    [id |-> id, epic_id |-> epic_id, title |-> title, description |-> <<>>,
     acceptance_criteria |-> <<>>, priority |-> "medium", status |-> "planned",
     tasks |-> <<>>]

NewTask(id, story_id, title, description, estimate, labels) ==
    [id |-> id, story_id |-> story_id, title |-> title,
     description |-> description, estimate |-> estimate,
     status |-> "planned", labels |-> labels]

\* ----------------------------------------------------------------- inputs
\* Lines an outline handed to the parser is made of.
EpicAuth == <<"EPIC:", " ", "Auth">>
EpicBilling == <<"EPIC:", " ", "Billing">>
StoryLogin == <<" ", " ", "STORY:", " ", "Login">>
StoryLogout == <<" ", " ", "STORY:", " ", "Logout">>
StoryInvoice == <<" ", " ", "STORY:", " ", "Invoice">>
NumberedCore == <<"1", ".", " ", "Core">>
DashStoryPay == <<" ", "-", " ", "Story:", " ", "Pay">>
DashNote == <<" ", "-", " ", "note">>
DescriptionLine == <<"Description:", " ", "text">>
CriteriaLine == <<"Acceptance criteria:">>
Garbage == <<"garbage", " ", "text">>
Blank == <<" ">>
Heading == <<"Epics:">>

ParseLines ==
    {EpicAuth, EpicBilling, StoryLogin, NumberedCore, DashStoryPay, DashNote,
     DescriptionLine, CriteriaLine, Garbage, Blank}

\* Longer outlines, beyond MaxLines: the examples of the documentation.
ExampleTagged == <<EpicAuth, StoryLogin, StoryLogout, EpicBilling, StoryInvoice>>
ExampleLegacy ==
    <<Heading, NumberedCore, DashNote, DashStoryPay, DescriptionLine,
      CriteriaLine, DashNote, <<"-">>, DashStoryPay, DashNote>>
ExampleOrphans == <<DashStoryPay, CriteriaLine, DashNote, DashStoryPay>>
\* Five epics of one story each.
ExampleFiveEpics ==
    <<EpicAuth, StoryLogin, EpicBilling, StoryInvoice, NumberedCore, StoryLogout,
      <<"EPIC:", " ", "Search">>, StoryLogin, <<"EPIC:", " ", "Reports">>, StoryLogout>>
\* A criteria block with a line of other text in it.
ExampleInterrupted == <<StoryLogin, CriteriaLine, DashNote, Garbage, DashNote>>

SeqsUpTo(S, n) == UNION {[1..k -> S] : k \in 0..n}

Outlines ==
    SeqsUpTo(ParseLines, MaxLines)
        \cup {ExampleTagged, ExampleLegacy, ExampleOrphans, ExampleInterrupted,
              ExampleFiveEpics}

\* Lines of the raw text the outline source answers with.
RawLines ==
    {EpicAuth,
     <<"-", " ", "STORY:", " ", "Login">>,
     <<"1", ".", " ", "EPIC:", " ", "Billing">>,
     <<"*", " ", "Story:", " ", "Pay">>,
     Garbage,
     <<>>}

\* raw_text.split("\n") has at least one element
RawOutlines == SeqsUpTo(RawLines, MaxRawLines) \ {<<>>}

Horizons == {"month", "quarter", "half_year", "year", "decade"}

\* A vision text is its lines; a line is a name and its length in characters.
Visions ==
    {<<>>,
     <<[name |-> "short vision", chars |-> 12]>>,
     <<[name |-> "long vision", chars |-> 81],
       [name |-> "second line", chars |-> 11]>>}

TodayChoices == {0, 738000}

\* -------------------------------------------------------------- the state
VARIABLES
    mode,                     \* the call: parse (the parser, then the allocator on
                              \* its result), allocate, create
    pc,                       \* position in the called function
    outline,                  \* the parser's argument, as lines
    pos,                      \* number of lines the loop has consumed
    branches,                 \* the branch of the loop body each line took
    epics, all_tasks,
    epic_counter, story_counter, task_counter,
    current_epic, current_story,
    collecting_criteria, temp_criteria,
    last_line_was_epic_title,
    time_horizon, vision_text,
    today, sprints, sprint_index, task_pos,
    llm,                      \* outcome of the outline source: none, returned, raised
    llm_calls,                \* number of calls of the outline source
    parse_calls,              \* number of calls of _parse_outline_to_models
    plan

parser_vars ==
    <<outline, pos, branches, epics, all_tasks, epic_counter, story_counter,
      task_counter, current_epic, current_story, collecting_criteria,
      temp_criteria, last_line_was_epic_title>>

alloc_vars == <<today, sprints, sprint_index, task_pos>>

call_vars == <<mode, time_horizon, vision_text, llm, llm_calls, parse_calls, plan>>

vars == <<pc, parser_vars, alloc_vars, call_vars>>

\* ------------------------------------------------------------- the parser
\* Variant: a dash line under an open story is a criterion whether or not an
\* "Acceptance criteria:" line was seen.
BranchWithoutCollecting(stripped, cur_epic, cur_story, collecting, last_epic) ==
    IF StartsWith(stripped, <<"EPIC:">>) THEN "epic"
    ELSE IF StartsWith(stripped, <<"STORY:">>) THEN "story"
    ELSE IF NumberedHeader(stripped) THEN "numbered"
    ELSE IF StartsWith(stripped, <<"-", " ">>) /\ cur_epic # None /\ last_epic
         THEN "epic_description"
    ELSE IF StartsWith(stripped, <<"-", " ", "Story:">>) THEN "dash_story"
    ELSE IF StartsWith(stripped, <<"Description:">>) /\ cur_story # None
         THEN "description"
    ELSE IF StartsWith(stripped, <<"Acceptance criteria:">>) /\ cur_story # None
         THEN "criteria_start"
    ELSE IF StartsWith(stripped, <<"-">>) /\ cur_story # None
         THEN "criterion"
    ELSE "ignored"

\* The chain of tests of the loop body, first match wins.
Branch(stripped, cur_epic, cur_story, collecting, last_epic) ==
    IF StartsWith(stripped, <<"EPIC:">>) THEN "epic"
    ELSE IF StartsWith(stripped, <<"STORY:">>) THEN "story"
    ELSE IF NumberedHeader(stripped) THEN "numbered"
    ELSE IF StartsWith(stripped, <<"-", " ">>) /\ cur_epic # None /\ last_epic
         THEN "epic_description"
    ELSE IF StartsWith(stripped, <<"-", " ", "Story:">>) THEN "dash_story"
    ELSE IF StartsWith(stripped, <<"Description:">>) /\ cur_story # None
         THEN "description"
    ELSE IF StartsWith(stripped, <<"Acceptance criteria:">>) /\ cur_story # None
         THEN "criteria_start"
    ELSE IF StartsWith(stripped, <<"-">>) /\ collecting /\ cur_story # None
         THEN "criterion"
    ELSE "ignored"

\* line.rstrip() then .strip()
Stripped(raw_line) == Strip(RStripChars(raw_line, WS))

CurrentLine == Stripped(outline[pos + 1])

AtLine(b) ==
    /\ pc = "lines"
    /\ pos < Len(outline)
    /\ Branch(CurrentLine, current_epic, current_story, collecting_criteria,
              last_line_was_epic_title) = b

Consumed(b) ==
    /\ pos' = pos + 1
    /\ branches' = Append(branches, b)

\* "Close any open story": the story takes the collected criteria and joins
\* the stories of the current epic, when there is one.
ClosedStory(story, criteria) == [story EXCEPT !.acceptance_criteria = criteria]

\* Variant: a closed story is not appended to its epic.
EpicAfterCloseForgets(epic, story, criteria) == epic

EpicAfterClose(epic, story, criteria) ==
    IF story # None /\ epic # None
    THEN [epic EXCEPT !.stories = Append(@, ClosedStory(story, criteria))]
    ELSE epic

\* Variant: a closed epic is not appended to the result list.
EpicsAfterCloseForgets(done, epic) == done

\* "Close previous epic"
EpicsAfterClose(done, epic) == IF epic # None THEN Append(done, epic) ELSE done

StoryEpicId(epic) == IF epic # None THEN epic.id ELSE <<>>

OpenEpic(title) ==
    /\ epics' = EpicsAfterClose(epics,
                    EpicAfterClose(current_epic, current_story, temp_criteria))
    /\ current_epic' = NewEpic(generate_id("EPIC", epic_counter), title, <<>>, "high")
    /\ epic_counter' = epic_counter + 1
    /\ current_story' = None
    /\ temp_criteria' = IF current_story # None THEN <<>> ELSE temp_criteria
    /\ collecting_criteria' =
           IF current_story # None THEN FALSE ELSE collecting_criteria
    /\ last_line_was_epic_title' = TRUE
    /\ UNCHANGED <<outline, all_tasks, story_counter, task_counter>>

ParseEpicLine ==
    /\ AtLine("epic")
    /\ Consumed("epic")
    /\ OpenEpic(Strip(Drop(CurrentLine, 1)))
    /\ UNCHANGED <<pc, alloc_vars, call_vars>>

ParseNumberedLine ==
    /\ AtLine("numbered")
    /\ Consumed("numbered")
    /\ OpenEpic(Strip(AfterFirstDot(CurrentLine)))
    /\ UNCHANGED <<pc, alloc_vars, call_vars>>

GeneralEpic(id) ==
    NewEpic(id, <<"General">>, <<"Auto-created epic for orphan stories.">>, "medium")

ParseStoryLine ==
    /\ AtLine("story")
    /\ Consumed("story")
    /\ LET closed == EpicAfterClose(current_epic, current_story, temp_criteria)
           epic == IF closed = None
                   THEN GeneralEpic(generate_id("EPIC", epic_counter))
                   ELSE closed
       IN  /\ current_epic' = epic
           /\ epic_counter' = IF closed = None THEN epic_counter + 1 ELSE epic_counter
           /\ current_story' = NewStory(generate_id("STORY", story_counter), epic.id,
                                        Strip(Drop(CurrentLine, 1)))
    /\ story_counter' = story_counter + 1
    /\ temp_criteria' = IF current_story # None THEN <<>> ELSE temp_criteria
    /\ collecting_criteria' = FALSE
    /\ last_line_was_epic_title' = FALSE
    /\ UNCHANGED <<outline, epics, all_tasks, task_counter>>
    /\ UNCHANGED <<pc, alloc_vars, call_vars>>

ParseEpicDescription ==
    /\ AtLine("epic_description")
    /\ Consumed("epic_description")
    /\ current_epic' =
           [current_epic EXCEPT
               !.description = Strip(LStripChars(CurrentLine, {"-", " "}))]
    /\ last_line_was_epic_title' = FALSE
    /\ UNCHANGED <<outline, epics, all_tasks, epic_counter, story_counter,
                   task_counter, current_story, collecting_criteria, temp_criteria>>
    /\ UNCHANGED <<pc, alloc_vars, call_vars>>

ParseDashStory ==
    /\ AtLine("dash_story")
    /\ Consumed("dash_story")
    /\ current_epic' = EpicAfterClose(current_epic, current_story, temp_criteria)
    /\ current_story' =
           NewStory(generate_id("STORY", story_counter), StoryEpicId(current_epic),
                    Strip(RemoveAll(CurrentLine, <<"-", " ", "Story:">>)))
    /\ story_counter' = story_counter + 1
    /\ temp_criteria' = IF current_story # None THEN <<>> ELSE temp_criteria
    /\ collecting_criteria' = FALSE
    /\ UNCHANGED <<outline, epics, all_tasks, epic_counter, task_counter,
                   last_line_was_epic_title>>
    /\ UNCHANGED <<pc, alloc_vars, call_vars>>

ParseDescription ==
    /\ AtLine("description")
    /\ Consumed("description")
    /\ current_story' =
           [current_story EXCEPT
               !.description = Strip(RemoveAll(CurrentLine, <<"Description:">>))]
    /\ UNCHANGED <<outline, epics, all_tasks, epic_counter, story_counter,
                   task_counter, current_epic, collecting_criteria, temp_criteria,
                   last_line_was_epic_title>>
    /\ UNCHANGED <<pc, alloc_vars, call_vars>>

ParseCriteriaStart ==
    /\ AtLine("criteria_start")
    /\ Consumed("criteria_start")
    /\ collecting_criteria' = TRUE
    /\ temp_criteria' = <<>>
    /\ UNCHANGED <<outline, epics, all_tasks, epic_counter, story_counter,
                   task_counter, current_epic, current_story,
                   last_line_was_epic_title>>
    /\ UNCHANGED <<pc, alloc_vars, call_vars>>

Criterion(stripped) == Strip(LStripChars(stripped, {"-"}))

ParseCriterion ==
    /\ AtLine("criterion")
    /\ Consumed("criterion")
    /\ temp_criteria' =
           IF Criterion(CurrentLine) # <<>>
           THEN Append(temp_criteria, Criterion(CurrentLine))
           ELSE temp_criteria
    /\ UNCHANGED <<outline, epics, all_tasks, epic_counter, story_counter,
                   task_counter, current_epic, current_story, collecting_criteria,
                   last_line_was_epic_title>>
    /\ UNCHANGED <<pc, alloc_vars, call_vars>>

\* Variant: a line that matches nothing clears the epic-title flag.
IgnoreLineClearsFlag ==
    /\ AtLine("ignored")
    /\ Consumed("ignored")
    /\ last_line_was_epic_title' = FALSE
    /\ UNCHANGED <<outline, epics, all_tasks, epic_counter, story_counter,
                   task_counter, current_epic, current_story, collecting_criteria,
                   temp_criteria>>
    /\ UNCHANGED <<pc, alloc_vars, call_vars>>

IgnoreLine ==
    /\ AtLine("ignored")
    /\ Consumed("ignored")
    /\ UNCHANGED <<outline, epics, all_tasks, epic_counter, story_counter,
                   task_counter, current_epic, current_story, collecting_criteria,
                   temp_criteria, last_line_was_epic_title>>
    /\ UNCHANGED <<pc, alloc_vars, call_vars>>

\* End of input: close any open story and epic.
CloseAtEnd ==
    /\ pc = "lines"
    /\ pos = Len(outline)
    /\ pc' = "tasks"
    /\ current_story' =
           IF current_story # None
           THEN ClosedStory(current_story, temp_criteria)
           ELSE current_story
    /\ current_epic' = EpicAfterClose(current_epic, current_story, temp_criteria)
    /\ epics' = EpicsAfterClose(epics,
                    EpicAfterClose(current_epic, current_story, temp_criteria))
    /\ UNCHANGED <<outline, pos, branches, all_tasks, epic_counter, story_counter,
                   task_counter, collecting_criteria, temp_criteria,
                   last_line_was_epic_title>>
    /\ UNCHANGED <<alloc_vars, call_vars>>

\* Variant: no "Validate" task is generated.
StoryTasksWithoutValidate(story, counter) ==
    <<NewTask(generate_id("TASK", counter), story.id,
              <<"Setup for:", " ">> \o story.title, "", "S", <<"setup">>),
      NewTask(generate_id("TASK", counter + 1), story.id,
              <<"Implement:", " ">> \o story.title, "", "M", <<"implementation">>)>>

\* Auto-generated tasks of one story; `counter` is the next value of task_counter.
StoryTasks(story, counter) ==
    <<NewTask(generate_id("TASK", counter), story.id,
              <<"Setup for:", " ">> \o story.title,
              "Create scaffolding, directories, configs, and basic wiring needed for this story.",
              "S", <<"setup">>),
      NewTask(generate_id("TASK", counter + 1), story.id,
              <<"Implement:", " ">> \o story.title,
              "Implement the main logic to satisfy this story.",
              "M", <<"implementation">>),
      NewTask(generate_id("TASK", counter + 2), story.id,
              <<"Validate:", " ">> \o story.title,
              "Test and verify that all acceptance criteria are met.",
              "S", <<"testing">>)>>

\* Variant: the generated tasks are not stored in their story.
RECURSIVE FillStoriesUnattached(_, _)
FillStoriesUnattached(stories, counter) ==
    IF stories = <<>>
    THEN [stories |-> <<>>, tasks |-> <<>>, counter |-> counter]
    ELSE LET mine == <<NewTask(generate_id("TASK", counter), Head(stories).id,
                               <<"Setup for:", " ">> \o Head(stories).title,
                               "", "S", <<"setup">>)>>
             rest == FillStoriesUnattached(Tail(stories), counter + Len(mine))
         IN  [stories |-> <<Head(stories)>> \o rest.stories,
              tasks |-> mine \o rest.tasks,
              counter |-> rest.counter]

\* The inner loop: the stories of one epic, in order.
RECURSIVE FillStories(_, _)
FillStories(stories, counter) ==
    IF stories = <<>>
    THEN [stories |-> <<>>, tasks |-> <<>>, counter |-> counter]
    ELSE LET mine == StoryTasks(Head(stories), counter)
             rest == FillStories(Tail(stories), counter + Len(mine))
         IN  [stories |-> <<[Head(stories) EXCEPT !.tasks = mine]>> \o rest.stories,
              tasks |-> mine \o rest.tasks,
              counter |-> rest.counter]

\* The outer loop: the epics, in order.
RECURSIVE FillEpics(_, _)
FillEpics(es, counter) ==
    IF es = <<>>
    THEN [epics |-> <<>>, tasks |-> <<>>, counter |-> counter]
    ELSE LET mine == FillStories(Head(es).stories, counter)
             rest == FillEpics(Tail(es), mine.counter)
         IN  [epics |-> <<[Head(es) EXCEPT !.stories = mine.stories]>> \o rest.epics,
              tasks |-> mine.tasks \o rest.tasks,
              counter |-> rest.counter]

GenerateTasks ==
    /\ pc = "tasks"
    /\ pc' = "fallback"
    /\ LET filled == FillEpics(epics, task_counter)
       IN  /\ epics' = filled.epics
           /\ all_tasks' = all_tasks \o filled.tasks
           /\ task_counter' = filled.counter
    /\ UNCHANGED <<outline, pos, branches, epic_counter, story_counter,
                   current_epic, current_story, collecting_criteria, temp_criteria,
                   last_line_was_epic_title>>
    /\ UNCHANGED <<alloc_vars, call_vars>>

FallbackTask(task_id, story_id) ==
    NewTask(task_id, story_id, <<"Draft initial project structure">>,
            "Manually define epics, stories, and tasks based on the vision.",
            "M", <<"fallback">>)

\* Variant: the fallback task is not stored in the fallback story.
FallbackStoryWithoutTask(story_id, epic_id, task_id) ==
    NewStory(story_id, epic_id, <<"Create initial project plan">>)

FallbackStory(story_id, epic_id, task_id) ==
    [NewStory(story_id, epic_id, <<"Create initial project plan">>) EXCEPT
        !.description = <<"As a user, I want an initial project plan from my vision.">>,
        !.acceptance_criteria = <<<<"Plan has at least one epic, story, and task.">>>>,
        !.tasks = <<FallbackTask(task_id, story_id)>>]

FallbackEpic(epic_id, story_id, task_id) ==
    [NewEpic(epic_id, <<"Initial Project Planning">>,
             <<"Fallback epic generated when outline parsing fails.">>, "medium")
     EXCEPT !.stories = <<FallbackStory(story_id, epic_id, task_id)>>]

NeedsFallback(es) == es = <<>>

\* "Fallback if absolutely nothing parsed", then return.
FallbackAndReturn ==
    /\ pc = "fallback"
    /\ pc' = "parsed"
    /\ IF NeedsFallback(epics)
       THEN /\ epics' = <<FallbackEpic(generate_id("EPIC", epic_counter),
                                       generate_id("STORY", story_counter),
                                       generate_id("TASK", task_counter))>>
            /\ all_tasks' = <<FallbackTask(generate_id("TASK", task_counter),
                                           generate_id("STORY", story_counter))>>
            /\ epic_counter' = epic_counter + 1
            /\ story_counter' = story_counter + 1
            /\ task_counter' = task_counter + 1
       ELSE UNCHANGED <<epics, all_tasks, epic_counter, story_counter, task_counter>>
    /\ UNCHANGED <<outline, pos, branches, current_epic, current_story,
                   collecting_criteria, temp_criteria, last_line_was_epic_title>>
    /\ UNCHANGED <<alloc_vars, call_vars>>

\* ------------------------------------------- the parser as a function
\* The locals of _parse_outline_to_models before the first line.
StartLocals ==
    [epics |-> <<>>, epic_counter |-> 1, story_counter |-> 1,
     current_epic |-> None, current_story |-> None,
     collecting_criteria |-> FALSE, temp_criteria |-> <<>>,
     last_line_was_epic_title |-> FALSE]

\* One pass of the loop body: the locals after raw_line is read.
StepLine(st, raw_line) ==
    LET stripped == Stripped(raw_line)
        b == Branch(stripped, st.current_epic, st.current_story,
                    st.collecting_criteria, st.last_line_was_epic_title)
        had_story == st.current_story # None
        closed == EpicAfterClose(st.current_epic, st.current_story, st.temp_criteria)
        WithEpic(title) ==
            [st EXCEPT
                !.epics = EpicsAfterClose(@, closed),
                !.current_epic =
                    NewEpic(generate_id("EPIC", st.epic_counter), title, <<>>, "high"),
                !.epic_counter = @ + 1,
                !.current_story = None,
                !.temp_criteria = IF had_story THEN <<>> ELSE @,
                !.collecting_criteria = IF had_story THEN FALSE ELSE @,
                !.last_line_was_epic_title = TRUE]
        story_epic == IF closed = None
                      THEN GeneralEpic(generate_id("EPIC", st.epic_counter))
                      ELSE closed
    IN  CASE b = "epic" -> WithEpic(Strip(Drop(stripped, 1)))
          [] b = "numbered" -> WithEpic(Strip(AfterFirstDot(stripped)))
          [] b = "story" ->
                [st EXCEPT
                    !.current_epic = story_epic,
                    !.epic_counter = IF closed = None THEN @ + 1 ELSE @,
                    !.current_story =
                        NewStory(generate_id("STORY", st.story_counter),
                                 story_epic.id, Strip(Drop(stripped, 1))),
                    !.story_counter = @ + 1,
                    !.temp_criteria = IF had_story THEN <<>> ELSE @,
                    !.collecting_criteria = FALSE,
                    !.last_line_was_epic_title = FALSE]
          [] b = "epic_description" ->
                [st EXCEPT
                    !.current_epic.description =
                        Strip(LStripChars(stripped, {"-", " "})),
                    !.last_line_was_epic_title = FALSE]
          [] b = "dash_story" ->
                [st EXCEPT
                    !.current_epic = closed,
                    !.current_story =
                        NewStory(generate_id("STORY", st.story_counter),
                                 StoryEpicId(st.current_epic),
                                 Strip(RemoveAll(stripped, <<"-", " ", "Story:">>))),
                    !.story_counter = @ + 1,
                    !.temp_criteria = IF had_story THEN <<>> ELSE @,
                    !.collecting_criteria = FALSE]
          [] b = "description" ->
                [st EXCEPT
                    !.current_story.description =
                        Strip(RemoveAll(stripped, <<"Description:">>))]
          [] b = "criteria_start" ->
                [st EXCEPT !.collecting_criteria = TRUE, !.temp_criteria = <<>>]
          [] b = "criterion" ->
                [st EXCEPT
                    !.temp_criteria =
                        IF Criterion(stripped) # <<>>
                        THEN Append(@, Criterion(stripped))
                        ELSE @]
          [] OTHER -> st

\* The loop over the lines.
RECURSIVE RunLines(_, _)
RunLines(st, lines) ==
    IF lines = <<>> THEN st ELSE RunLines(StepLine(st, Head(lines)), Tail(lines))

\* What _parse_outline_to_models returns for an outline: the final close, the
\* task generation and the fallback, after the loop.
parse_outline_to_models(lines) ==
    LET st == RunLines(StartLocals, lines)
        closed == EpicsAfterClose(st.epics,
                      EpicAfterClose(st.current_epic, st.current_story,
                                     st.temp_criteria))
        filled == FillEpics(closed, 1)
    IN  IF NeedsFallback(filled.epics)
        THEN [epics |-> <<FallbackEpic(generate_id("EPIC", st.epic_counter),
                                       generate_id("STORY", st.story_counter),
                                       generate_id("TASK", filled.counter))>>,
              all_tasks |-> <<FallbackTask(generate_id("TASK", filled.counter),
                                           generate_id("STORY", st.story_counter))>>]
        ELSE [epics |-> filled.epics, all_tasks |-> filled.tasks]

\* The locals of the running call, as one record.
Locals ==
    [epics |-> epics, epic_counter |-> epic_counter,
     story_counter |-> story_counter,
     current_epic |-> current_epic, current_story |-> current_story,
     collecting_criteria |-> collecting_criteria, temp_criteria |-> temp_criteria,
     last_line_was_epic_title |-> last_line_was_epic_title]

\* ------------------------------------------------------ the sprint allocator
\* Variant: the quarter entry is missing from the lookup.
estimate_number_of_sprints_no_quarter(h) ==
    IF h = "month" THEN 2
    ELSE IF h = "half_year" THEN 12
    ELSE IF h = "year" THEN 24
    ELSE 4

estimate_number_of_sprints(h) ==
    IF h = "month" THEN 2
    ELSE IF h = "quarter" THEN 6
    ELSE IF h = "half_year" THEN 12
    ELSE IF h = "year" THEN 24
    ELSE 4

sprint_length_days == 14

SprintStart(i, day) == day + i * sprint_length_days

\* Variant: the end date is a whole sprint length after the start.
SprintEndExclusive(start) == start + sprint_length_days

SprintEnd(start) == start + (sprint_length_days - 1)

\* Sprint i (0-based) as created by the first loop; dates are day numbers.
NewSprint(i, day) ==
    [id |-> generate_id("SPRINT", i + 1),
     name |-> <<"Sprint", i + 1>>,
     start_date |-> SprintStart(i, day),
     end_date |-> SprintEnd(SprintStart(i, day)),
     goal |-> <<>>,
     task_ids |-> <<>>]

CallAllocate == pc = "allocate"

CreateSprints ==
    /\ CallAllocate
    /\ \E day \in TodayChoices :
          LET total == estimate_number_of_sprints(time_horizon)
          IN  /\ today' = day
              /\ sprints' = [k \in 1..total |-> NewSprint(k - 1, day)]
              /\ pc' = IF total = 0 THEN "allocated" ELSE "bucket"
    /\ sprint_index' = 0
    /\ task_pos' = 0
    /\ UNCHANGED <<parser_vars, call_vars>>

GenericGoal(i) ==
    IF i = 0 THEN <<"Initial setup and discovery.">>
    ELSE IF i = 1 THEN <<"Core implementation.">>
    ELSE <<"Ongoing improvements.">>

\* "No tasks, just set very high level goals"
SetGenericGoals ==
    /\ pc = "bucket"
    /\ all_tasks = <<>>
    /\ sprints' = [k \in 1..Len(sprints) |->
                      [sprints[k] EXCEPT !.goal = GenericGoal(k - 1)]]
    /\ pc' = "allocated"
    /\ UNCHANGED <<today, sprint_index, task_pos, parser_vars, call_vars>>

\* Variant: the sprint is left only once it holds more than 5 ids.
NextSprintIndexLate(index, held, total) ==
    IF held > 5 /\ index < total - 1 THEN index + 1 ELSE index

\* The sprint (0-based) the next task goes to, after `held` ids are in sprint `index`.
NextSprintIndex(index, held, total) ==
    IF held >= 5 /\ index < total - 1 THEN index + 1 ELSE index

\* Variant: the id is put in front of the ids the sprint holds.
WithTaskIdInFront(ss, index, task_id) ==
    [ss EXCEPT ![index + 1].task_ids = <<task_id>> \o @]

\* Variant: the id replaces the ids the sprint holds.
WithTaskIdOverwrites(ss, index, task_id) ==
    [ss EXCEPT ![index + 1].task_ids = <<task_id>>]

\* Variant: a sprint that already holds 5 ids takes no more.
WithTaskIdCapped(ss, index, task_id) ==
    IF Len(ss[index + 1].task_ids) >= 5 THEN ss
    ELSE [ss EXCEPT ![index + 1].task_ids = Append(@, task_id)]

WithTaskId(ss, index, task_id) ==
    [ss EXCEPT ![index + 1].task_ids = Append(@, task_id)]

\* One round of "for task in tasks".
AssignTask ==
    /\ pc = "bucket"
    /\ all_tasks # <<>>
    /\ task_pos < Len(all_tasks)
    /\ sprints' = WithTaskId(sprints, sprint_index, all_tasks[task_pos + 1].id)
    /\ sprint_index' =
           NextSprintIndex(sprint_index,
                           Len(sprints'[sprint_index + 1].task_ids), Len(sprints))
    /\ task_pos' = task_pos + 1
    /\ UNCHANGED <<pc, today, parser_vars, call_vars>>

\* dict built by assignment in list order: the last entry with the key wins
RECURSIVE LookupLast(_, _)
LookupLast(entities, id) ==
    IF entities = <<>> THEN None
    ELSE IF entities[Len(entities)].id = id THEN entities[Len(entities)]
    ELSE LookupLast(SubSeq(entities, 1, Len(entities) - 1), id)

RECURSIVE AllStories(_)
AllStories(es) ==
    IF es = <<>> THEN <<>> ELSE Head(es).stories \o AllStories(Tail(es))

InSeq(x, s) == \E k \in 1..Len(s) : s[k] = x

\* Titles of the epics reached from the tasks of a sprint, in task order.
RECURSIVE EpicTitlesIn(_, _, _)
EpicTitlesIn(tasks, task_ids, es) ==
    IF tasks = <<>> THEN <<>>
    ELSE LET task == Head(tasks)
             story == IF InSeq(task.id, task_ids)
                      THEN LookupLast(AllStories(es), task.story_id)
                      ELSE None
             epic == IF story # None THEN LookupLast(es, story.epic_id) ELSE None
         IN  (IF epic # None THEN <<epic.title>> ELSE <<>>)
             \o EpicTitlesIn(Tail(tasks), task_ids, es)

\* "Unique epic titles, preserve order"
RECURSIVE Unique(_, _)
Unique(titles, seen) ==
    IF titles = <<>> THEN <<>>
    ELSE IF Head(titles) \in seen THEN Unique(Tail(titles), seen)
    ELSE <<Head(titles)>> \o Unique(Tail(titles), seen \cup {Head(titles)})

\* ", ".join(titles)
RECURSIVE Join(_)
Join(titles) ==
    IF titles = <<>> THEN <<>>
    ELSE IF Len(titles) = 1 THEN Head(titles)
    ELSE Head(titles) \o <<", ">> \o Join(Tail(titles))

\* Variant: every title is listed.
EpicListStrUncapped(unique) ==
    IF unique # <<>> THEN Join(unique) ELSE <<"key epics">>

EpicListStr(unique) ==
    IF unique # <<>>
    THEN IF Len(unique) > 3
         THEN Join(SubSeq(unique, 1, 3)) \o <<", and others">>
         ELSE Join(unique)
    ELSE <<"key epics">>

\* The short project label taken from the vision text.
FirstLine(vision) ==
    IF vision = <<>> THEN <<"this project">>
    ELSE IF vision[1].chars > 80 THEN <<vision[1].name, "[:77]", "...">>
    ELSE <<vision[1].name>>

\* Variant: every index above 1 takes the ongoing-improvements wording.
GoalWithoutRefinement(i, first_line, epic_list_str) ==
    IF i = 0
    THEN <<"Foundations for '">> \o first_line \o <<"'. Focus on ">>
         \o epic_list_str \o <<".">>
    ELSE IF i = 1 THEN <<"Core implementation for ">> \o epic_list_str \o <<".">>
    ELSE <<"Ongoing improvements across ">> \o epic_list_str \o <<".">>

Goal(i, first_line, epic_list_str) ==
    IF i = 0
    THEN <<"Foundations for '">> \o first_line \o <<"'. Focus on ">>
         \o epic_list_str \o <<".">>
    ELSE IF i = 1 THEN <<"Core implementation for ">> \o epic_list_str \o <<".">>
    ELSE IF i = 2
    THEN <<"Refinement and validation for ">> \o epic_list_str \o <<".">>
    ELSE <<"Ongoing improvements across ">> \o epic_list_str \o <<".">>

\* "Set a specific goal for each sprint based on its tasks and epics", then return.
SetGoals ==
    /\ pc = "bucket"
    /\ all_tasks # <<>>
    /\ task_pos = Len(all_tasks)
    /\ sprints' =
           [k \in 1..Len(sprints) |->
               [sprints[k] EXCEPT !.goal =
                   Goal(k - 1, FirstLine(vision_text),
                        EpicListStr(Unique(EpicTitlesIn(all_tasks,
                                                        sprints[k].task_ids, epics),
                                           {})))]]
    /\ pc' = "allocated"
    /\ UNCHANGED <<today, sprint_index, task_pos, parser_vars, call_vars>>

\* -------------------------------------------------------- the outline source
\* re.sub(r"^[0-9]+[.)]\s*", "", s)
WithoutLeadingNumber(s) ==
    LET rest == LStripChars(s, Digits)
    IN  IF Len(rest) < Len(s) /\ rest # <<>> /\ Head(rest) \in {".", ")"}
        THEN LStripChars(Tail(rest), WS)
        ELSE s

\* "Clean common leading junk", one line ("bullet" is the token of U+2022)
CleanLine(line) ==
    WithoutLeadingNumber(Strip(LStripChars(Strip(line), {"-", "*", "bullet"})))

CleanLines(lines) == [k \in 1..Len(lines) |-> CleanLine(lines[k])]

RECURSIVE Normalized(_, _)
Normalized(lines, normalized) ==
    IF lines = <<>> THEN normalized
    ELSE LET stripped == Strip(Head(lines))
         IN  Normalized(Tail(lines),
                 IF StartsWith(stripped, <<"EPIC:">>)
                 THEN (IF normalized # <<>> THEN Append(normalized, <<>>)
                       ELSE normalized) \o <<stripped>>
                 ELSE IF StartsWith(stripped, <<"STORY:">>)
                 THEN Append(normalized, <<" ", " ">> \o stripped)
                 ELSE IF stripped = <<>> THEN normalized
                 ELSE Append(normalized, stripped))

normalize_outline_format(lines) == Normalized(lines, <<>>)

\* "\n".join(lines).splitlines(): a last empty line does not survive
SplitLinesOfJoin(lines) ==
    IF lines # <<>> /\ lines[Len(lines)] = <<>>
    THEN SubSeq(lines, 1, Len(lines) - 1)
    ELSE lines

\* What _ask_llm_for_outline returns for the raw answer `raw`.
ask_llm_for_outline(raw) ==
    SplitLinesOfJoin(normalize_outline_format(CleanLines(raw)))

BootstrapOutline == <<Heading, <<"1", ".", " ", "Initial Project Planning">>>>

\* ------------------------------------------------------ the public entry point
\* try: outline = _ask_llm_for_outline(vision_text), then the parser is entered.
AskLLMReturns ==
    /\ pc = "ask"
    /\ \E raw \in RawOutlines : outline' = ask_llm_for_outline(raw)
    /\ llm' = "returned"
    /\ llm_calls' = llm_calls + 1
    /\ parse_calls' = parse_calls + 1
    /\ pc' = "lines"
    /\ UNCHANGED <<pos, branches, epics, all_tasks, epic_counter, story_counter,
                   task_counter, current_epic, current_story, collecting_criteria,
                   temp_criteria, last_line_was_epic_title>>
    /\ UNCHANGED <<alloc_vars, mode, time_horizon, vision_text, plan>>

\* except Exception: the parser is entered with the bootstrap outline.
AskLLMRaises ==
    /\ pc = "ask"
    /\ outline' = BootstrapOutline
    /\ llm' = "raised"
    /\ llm_calls' = llm_calls + 1
    /\ parse_calls' = parse_calls + 1
    /\ pc' = "lines"
    /\ UNCHANGED <<pos, branches, epics, all_tasks, epic_counter, story_counter,
                   task_counter, current_epic, current_story, collecting_criteria,
                   temp_criteria, last_line_was_epic_title>>
    /\ UNCHANGED <<alloc_vars, mode, time_horizon, vision_text, plan>>

\* Outlines of a further call, besides the outline of the call before.
NextOutlines == {ExampleTagged, ExampleOrphans, <<DashStoryPay, NumberedCore>>}

\* Variant: the counters of the call before are kept.
ParseAgainKeepsCounters ==
    /\ mode = "parse"
    /\ pc = "parsed"
    /\ parse_calls < MaxCalls
    /\ outline' \in {outline} \cup NextOutlines
    /\ pos' = 0
    /\ branches' = <<>>
    /\ epics' = <<>>
    /\ all_tasks' = <<>>
    /\ current_epic' = None
    /\ current_story' = None
    /\ collecting_criteria' = FALSE
    /\ temp_criteria' = <<>>
    /\ last_line_was_epic_title' = FALSE
    /\ parse_calls' = parse_calls + 1
    /\ pc' = "lines"
    /\ UNCHANGED <<epic_counter, story_counter, task_counter>>
    /\ UNCHANGED <<alloc_vars, mode, time_horizon, vision_text, llm, llm_calls, plan>>

\* The caller calls _parse_outline_to_models once more, after it returned:
\* the call starts from its own initial locals.
ParseAgain ==
    /\ mode = "parse"
    /\ pc = "parsed"
    /\ parse_calls < MaxCalls
    /\ outline' \in {outline} \cup NextOutlines
    /\ pos' = 0
    /\ branches' = <<>>
    /\ epics' = <<>>
    /\ all_tasks' = <<>>
    /\ epic_counter' = 1
    /\ story_counter' = 1
    /\ task_counter' = 1
    /\ current_epic' = None
    /\ current_story' = None
    /\ collecting_criteria' = FALSE
    /\ temp_criteria' = <<>>
    /\ last_line_was_epic_title' = FALSE
    /\ parse_calls' = parse_calls + 1
    /\ pc' = "lines"
    /\ UNCHANGED <<alloc_vars, mode, time_horizon, vision_text, llm, llm_calls, plan>>

\* sprints = _allocate_sprints(epics, all_tasks, time_horizon, vision_text)
EnterAllocate ==
    /\ mode \in {"parse", "create"}
    /\ pc = "parsed"
    /\ pc' = "allocate"
    /\ UNCHANGED <<parser_vars, alloc_vars, call_vars>>

AssemblePlan ==
    /\ mode = "create"
    /\ pc = "allocated"
    /\ plan' = [id |-> "PLAN-1", name |-> "My Project Plan",
                vision_text |-> vision_text, time_horizon |-> time_horizon,
                epics |-> epics, sprints |-> sprints]
    /\ pc' = "done"
    /\ UNCHANGED <<parser_vars, alloc_vars, mode, time_horizon, vision_text,
                   llm, llm_calls, parse_calls>>

\* ------------------------------------------------- arguments of _allocate_sprints
\* Task lists and epics the allocator is called with directly: n tasks with
\* distinct ids, three per story as the parser numbers them, in either order,
\* the stories one per epic ("spread") or unknown to the epics ("none").
ArgTask(i) ==
    NewTask(generate_id("TASK", i), generate_id("STORY", (i - 1) \div 3 + 1),
            <<"Task">>, "", "M", <<>>)

ArgTasks(n, order) ==
    [k \in 1..n |-> ArgTask(IF order = "asc" THEN k ELSE n + 1 - k)]

ArgEpics(n, shape) ==
    IF shape = "none" THEN <<>>
    ELSE [j \in 1..((n + 2) \div 3) |->
            [NewEpic(generate_id("EPIC", j), <<"Epic", ToString(j)>>, <<>>, "high")
             EXCEPT !.stories =
                <<NewStory(generate_id("STORY", j), generate_id("EPIC", j),
                           <<"Story", ToString(j)>>)>>]]

\* ------------------------------------------------------------ specification
ParserStart ==
    /\ pos = 0
    /\ branches = <<>>
    /\ epics = <<>>
    /\ all_tasks = <<>>
    /\ epic_counter = 1
    /\ story_counter = 1
    /\ task_counter = 1
    /\ current_epic = None
    /\ current_story = None
    /\ collecting_criteria = FALSE
    /\ temp_criteria = <<>>
    /\ last_line_was_epic_title = FALSE

AllocStart ==
    /\ today = 0
    /\ sprints = <<>>
    /\ sprint_index = 0
    /\ task_pos = 0

InitParse ==
    /\ mode = "parse"
    /\ pc = "lines"
    /\ outline \in Outlines
    /\ ParserStart
    /\ AllocStart
    /\ time_horizon \in {"month", "quarter"}
    /\ vision_text = <<>>
    /\ parse_calls = 1

InitAllocate ==
    /\ mode = "allocate"
    /\ pc = "allocate"
    /\ outline = <<>>
    /\ pos = 0
    /\ branches = <<>>
    /\ \E n \in 0..MaxTasks, order \in {"asc", "desc"}, shape \in {"spread", "none"} :
          /\ all_tasks = ArgTasks(n, order)
          /\ epics = ArgEpics(n, shape)
    /\ epic_counter = 1
    /\ story_counter = 1
    /\ task_counter = 1
    /\ current_epic = None
    /\ current_story = None
    /\ collecting_criteria = FALSE
    /\ temp_criteria = <<>>
    /\ last_line_was_epic_title = FALSE
    /\ AllocStart
    /\ time_horizon \in Horizons
    /\ vision_text \in Visions
    /\ parse_calls = 0

InitCreate ==
    /\ mode = "create"
    /\ pc = "ask"
    /\ outline = <<>>
    /\ ParserStart
    /\ AllocStart
    /\ time_horizon \in Horizons
    /\ vision_text \in Visions
    /\ parse_calls = 0

Init ==
    /\ llm = "none"
    /\ llm_calls = 0
    /\ plan = None
    /\ (InitParse \/ InitAllocate \/ InitCreate)

Next ==
    \/ ParseEpicLine
    \/ ParseStoryLine
    \/ ParseNumberedLine
    \/ ParseEpicDescription
    \/ ParseDashStory
    \/ ParseDescription
    \/ ParseCriteriaStart
    \/ ParseCriterion
    \/ IgnoreLine
    \/ CloseAtEnd
    \/ GenerateTasks
    \/ FallbackAndReturn
    \/ ParseAgain
    \/ AskLLMReturns
    \/ AskLLMRaises
    \/ EnterAllocate
    \/ CreateSprints
    \/ SetGenericGoals
    \/ AssignTask
    \/ SetGoals
    \/ AssemblePlan

Spec == Init /\ [][Next]_vars

\* ------------------------------------------------------------------ claims
ParseReturned ==
    /\ mode \in {"parse", "create"}
    /\ pc \in {"parsed", "allocate", "bucket", "allocated", "done"}

AllocateReturned == pc \in {"allocated", "done"}

ResultStories == AllStories(epics)

DistinctIds(entities) ==
    \A a, b \in 1..Len(entities) : a # b => entities[a].id # entities[b].id

\* Places (sprint, position) where a task id is held.
PlacesOf(task_id) ==
    UNION {{<<k, j>> : j \in {i \in 1..Len(sprints[k].task_ids) :
                                  sprints[k].task_ids[i] = task_id}} :
           k \in 1..Len(sprints)}

\* C1: after _allocate_sprints on a non-empty task list with pairwise distinct
\* ids, for any horizon, every task id is held by exactly one sprint, exactly
\* once, and no sprint holds an id that is not in the list.
C1_Partition ==
    (AllocateReturned /\ all_tasks # <<>> /\ DistinctIds(all_tasks)) =>
        /\ \A k \in 1..Len(all_tasks) : Cardinality(PlacesOf(all_tasks[k].id)) = 1
        /\ \A k \in 1..Len(sprints) : \A j \in 1..Len(sprints[k].task_ids) :
              \E t \in 1..Len(all_tasks) : all_tasks[t].id = sprints[k].task_ids[j]

C1_Witness ==
    /\ mode = "allocate"
    /\ pc = "allocated"
    /\ time_horizon = "decade"
    /\ Len(all_tasks) = MaxTasks
    /\ Len(sprints[1].task_ids) = 5
    /\ Len(sprints[2].task_ids) = 5
    /\ Len(sprints[3].task_ids) >= 1

HeaderBranches == {"epic", "story", "numbered", "dash_story"}

NoHeaderRecognized ==
    \A i \in 1..Len(branches) : branches[i] \notin HeaderBranches

\* C2: for an outline in which no line is recognized as an epic or story
\* header, the parser returns exactly one epic titled "Initial Project
\* Planning" with exactly one story with exactly one task titled "Draft
\* initial project structure", that task is the whole task list, and no text
\* of the input is in the result.
C2_Fallback ==
    (ParseReturned /\ NoHeaderRecognized) =>
        /\ Len(epics) = 1
        /\ epics[1].title = <<"Initial Project Planning">>
        /\ epics[1].description =
               <<"Fallback epic generated when outline parsing fails.">>
        /\ Len(epics[1].stories) = 1
        /\ epics[1].stories[1].title = <<"Create initial project plan">>
        /\ epics[1].stories[1].description =
               <<"As a user, I want an initial project plan from my vision.">>
        /\ epics[1].stories[1].acceptance_criteria =
               <<<<"Plan has at least one epic, story, and task.">>>>
        /\ Len(epics[1].stories[1].tasks) = 1
        /\ epics[1].stories[1].tasks[1].title = <<"Draft initial project structure">>
        /\ epics[1].stories[1].tasks[1].labels = <<"fallback">>
        /\ all_tasks = epics[1].stories[1].tasks

C2_Witness ==
    /\ mode = "parse"
    /\ pc = "parsed"
    /\ outline = <<Garbage, DashNote, CriteriaLine>>
    /\ NoHeaderRecognized
    /\ Len(all_tasks) = 1

ThreeTasksOf(story) ==
    /\ Len(story.tasks) = 3
    /\ story.tasks[1].title = <<"Setup for:", " ">> \o story.title
    /\ story.tasks[2].title = <<"Implement:", " ">> \o story.title
    /\ story.tasks[3].title = <<"Validate:", " ">> \o story.title
    /\ story.tasks[1].labels = <<"setup">>
    /\ story.tasks[2].labels = <<"implementation">>
    /\ story.tasks[3].labels = <<"testing">>

RECURSIVE TasksOfStories(_)
TasksOfStories(stories) ==
    IF stories = <<>> THEN <<>>
    ELSE Head(stories).tasks \o TasksOfStories(Tail(stories))

\* C3 as stated: for every input outline every story of the result owns
\* exactly the three tasks Setup for / Implement / Validate, labelled setup,
\* implementation, testing, and no task is produced any other way.
C3_Original ==
    ParseReturned =>
        /\ \A k \in 1..Len(ResultStories) : ThreeTasksOf(ResultStories[k])
        /\ all_tasks = TasksOfStories(ResultStories)

\* An epic was parsed: some line opened an epic (a "STORY:" line opens the
\* placeholder epic when none is open).
EpicParsed ==
    \E i \in 1..Len(branches) : branches[i] \in {"epic", "story", "numbered"}

\* C3: when at least one epic was parsed, every story of the result owns
\* exactly the three tasks Setup for / Implement / Validate, in this order,
\* labelled setup, implementation, testing, and the task list is exactly these
\* tasks; otherwise the result is the fallback, whose single story owns the
\* single task "Draft initial project structure", labelled fallback.
C3_ThreeTasksUnlessFallback ==
    ParseReturned =>
        /\ all_tasks = TasksOfStories(ResultStories)
        /\ IF EpicParsed
           THEN \A k \in 1..Len(ResultStories) : ThreeTasksOf(ResultStories[k])
           ELSE /\ Len(ResultStories) = 1
                /\ Len(all_tasks) = 1
                /\ all_tasks[1].title = <<"Draft initial project structure">>
                /\ all_tasks[1].labels = <<"fallback">>

C3_Witness ==
    /\ ParseReturned
    /\ EpicParsed
    /\ Len(ResultStories) = 2
    /\ ResultStories[1].title # ResultStories[2].title
    /\ Len(all_tasks) = 6

\* The tagged dialect: every line is an "EPIC:" line, a "STORY:" line or a
\* line the parser ignores, and at least one line is an "EPIC:" or "STORY:" line.
TaggedOutline ==
    /\ \A i \in 1..Len(branches) : branches[i] \in {"epic", "story", "ignored"}
    /\ \E i \in 1..Len(branches) : branches[i] \in {"epic", "story"}

IsEpicLine(i) == StartsWith(Stripped(outline[i]), <<"EPIC:">>)

IsStoryLine(i) == ~IsEpicLine(i) /\ StartsWith(Stripped(outline[i]), <<"STORY:">>)

EpicLinesUpTo(i) == Cardinality({j \in 1..i : IsEpicLine(j)})

\* A "STORY:" line stands before the first "EPIC:" line.
StoryBeforeEpic ==
    \E i \in 1..Len(outline) : IsStoryLine(i) /\ EpicLinesUpTo(i) = 0

\* C4 as stated: for a tagged outline the number of epics returned equals the
\* number of lines starting with "EPIC:".
C4_Original ==
    (ParseReturned /\ TaggedOutline) => Len(epics) = EpicLinesUpTo(Len(outline))

\* C4: for a tagged outline the number of epics returned equals the number of
\* lines starting with "EPIC:", plus one (the placeholder epic "General") when
\* a "STORY:" line stands before the first "EPIC:" line.
C4_EpicCount ==
    (ParseReturned /\ TaggedOutline) =>
        Len(epics) = EpicLinesUpTo(Len(outline)) + (IF StoryBeforeEpic THEN 1 ELSE 0)

C4_Witness ==
    /\ ParseReturned
    /\ TaggedOutline
    /\ StoryBeforeEpic
    /\ EpicLinesUpTo(Len(outline)) = 2
    /\ Len(epics) = 3

\* Position in the result of the epic a "STORY:" line at line i belongs to.
EpicPosOf(i) == EpicLinesUpTo(i) + (IF StoryBeforeEpic THEN 1 ELSE 0)

\* Title of the epic at position e of the result, read from the text.
EpicTitleAt(e) ==
    IF StoryBeforeEpic /\ e = 1 THEN <<"General">>
    ELSE LET i == CHOOSE j \in 1..Len(outline) :
                      IsEpicLine(j) /\ EpicPosOf(j) = e
         IN  Strip(Drop(Stripped(outline[i]), 1))

StoryLinesOf(e) == {j \in 1..Len(outline) : IsStoryLine(j) /\ EpicPosOf(j) = e}

\* Rank of the "STORY:" line i among the "STORY:" lines of its epic.
StoryRank(i) == Cardinality({j \in StoryLinesOf(EpicPosOf(i)) : j <= i})

\* C5: for a tagged outline, the story opened by each "STORY:" line is in the
\* result under the epic opened by the nearest preceding "EPIC:" line (the
\* placeholder "General" when there is none), carries that epic's id as
\* epic_id, and the stories of each epic are exactly its "STORY:" lines in
\* textual order.
C5_StoryParent ==
    (ParseReturned /\ TaggedOutline) =>
        /\ \A e \in 1..Len(epics) :
              /\ epics[e].title = EpicTitleAt(e)
              /\ Len(epics[e].stories) = Cardinality(StoryLinesOf(e))
              /\ \A j \in 1..Len(epics[e].stories) :
                    epics[e].stories[j].epic_id = epics[e].id
        /\ \A i \in 1..Len(outline) :
              IsStoryLine(i) =>
                  /\ EpicPosOf(i) \in 1..Len(epics)
                  /\ StoryRank(i) \in 1..Len(epics[EpicPosOf(i)].stories)
                  /\ epics[EpicPosOf(i)].stories[StoryRank(i)].title =
                         Strip(Drop(Stripped(outline[i]), 1))
        /\ DistinctIds(epics)

C5_Witness ==
    /\ mode = "parse"
    /\ pc = "parsed"
    /\ outline = ExampleTagged
    /\ Len(epics) = 2
    /\ Len(epics[1].stories) = 2
    /\ epics[2].stories[1].epic_id = epics[2].id

C5_WitnessPlaceholder ==
    /\ ParseReturned
    /\ TaggedOutline
    /\ StoryBeforeEpic
    /\ Len(epics) = 2
    /\ Len(epics[1].stories) = 2
    /\ Len(epics[2].stories) = 0

Holds(seq, x) == \E k \in 1..Len(seq) : seq[k] = x

\* C6: in every parse result, each task's story_id is the id of exactly one
\* story of the result and that story holds the task; each story's epic_id is
\* the id of exactly one epic of the result and that epic holds the story; no
\* story of the result has an empty epic_id.
C6_ReferentialIntegrity ==
    ParseReturned =>
        /\ \A t \in 1..Len(all_tasks) :
              /\ Cardinality({k \in 1..Len(ResultStories) :
                                 ResultStories[k].id = all_tasks[t].story_id}) = 1
              /\ \A k \in 1..Len(ResultStories) :
                    ResultStories[k].id = all_tasks[t].story_id =>
                        Holds(ResultStories[k].tasks, all_tasks[t])
        /\ \A k \in 1..Len(ResultStories) :
              /\ ResultStories[k].epic_id # <<>>
              /\ Cardinality({e \in 1..Len(epics) :
                                 epics[e].id = ResultStories[k].epic_id}) = 1
              /\ \A e \in 1..Len(epics) :
                    epics[e].id = ResultStories[k].epic_id =>
                        Holds(epics[e].stories, ResultStories[k])
              /\ \A j \in 1..Len(ResultStories[k].tasks) :
                    /\ ResultStories[k].tasks[j].story_id = ResultStories[k].id
                    /\ Holds(all_tasks, ResultStories[k].tasks[j])

\* A "- Story:" line with no epic open came first and its story was dropped.
C6_Witness ==
    /\ ParseReturned
    /\ Len(branches) = 3
    /\ branches[1] = "dash_story"
    /\ Len(epics) = 1
    /\ Len(ResultStories) = 1
    /\ Len(all_tasks) = 3

IsId(id, prefix) == Len(id) = 2 /\ id[1] = prefix /\ id[2] >= 1

Increasing(entities, prefix) ==
    /\ \A k \in 1..Len(entities) : IsId(entities[k].id, prefix)
    /\ \A a, b \in 1..Len(entities) : a < b => entities[a].id[2] < entities[b].id[2]

\* Number of lines consumed so far that opened a story.
StoriesOpened ==
    Cardinality({i \in 1..Len(branches) : branches[i] \in {"story", "dash_story"}})

\* C7: within one parse result the epic ids, story ids and task ids have the
\* form <PREFIX>-<n>, n >= 1, are pairwise distinct and strictly increase along
\* the result order; each counter starts at 1: the first epic and the first
\* task of the result are numbered 1 and the k-th story opened is numbered k.
C7_Identifiers ==
    /\ ParseReturned =>
          /\ Increasing(epics, "EPIC")
          /\ Increasing(ResultStories, "STORY")
          /\ Increasing(all_tasks, "TASK")
          /\ DistinctIds(epics) /\ DistinctIds(ResultStories) /\ DistinctIds(all_tasks)
          /\ epics[1].id = <<"EPIC", 1>>
          /\ all_tasks # <<>> => all_tasks[1].id = <<"TASK", 1>>
    /\ (pc = "lines" /\ current_story # None) =>
          current_story.id = <<"STORY", StoriesOpened>>
    /\ (pc = "lines" /\ current_epic # None) =>
          /\ IsId(current_epic.id, "EPIC")
          /\ current_epic.id[2] = Len(epics) + 1

C7_Witness ==
    /\ ParseReturned
    /\ Len(branches) = 3
    /\ branches[1] = "dash_story"
    /\ Len(epics) = 2
    /\ Len(ResultStories) = 1
    /\ ResultStories[1].id = <<"STORY", 2>>

RECURSIVE StoriesOfPlan(_)
StoriesOfPlan(es) ==
    IF es = <<>> THEN <<>> ELSE Head(es).stories \o StoriesOfPlan(Tail(es))

\* C8: create_plan_from_vision returns, for every outline the outline source
\* may return and also when the outline source fails, a plan with at least
\* one epic, at least one story and at least one task.
C8_NonEmptyPlan ==
    pc = "done" =>
        /\ Len(plan.epics) >= 1
        /\ Len(StoriesOfPlan(plan.epics)) >= 1
        /\ Len(TasksOfStories(StoriesOfPlan(plan.epics))) >= 1

\* C9: when obtaining the outline raises, create_plan_from_vision calls the
\* outline source once only, parses the bootstrap outline instead, and goes on
\* to return a plan with exactly one epic, titled "Initial Project Planning",
\* and the sprints of the requested horizon (month 2, quarter 6, half_year 12,
\* year 24, otherwise 4), numbered from 1; it never stops before returning.
C9_AcquisitionFailure ==
    llm = "raised" =>
        /\ llm_calls = 1
        /\ mode = "create"
        /\ outline = <<<<"Epics:">>, <<"1", ".", " ", "Initial Project Planning">>>>
        /\ pc # "done" => ENABLED Next
        /\ pc = "done" =>
              /\ Len(plan.epics) = 1
              /\ plan.epics[1].title = <<"Initial Project Planning">>
              /\ Len(plan.sprints) =
                     (CASE time_horizon = "month" -> 2
                        [] time_horizon = "quarter" -> 6
                        [] time_horizon = "half_year" -> 12
                        [] time_horizon = "year" -> 24
                        [] OTHER -> 4)
              /\ \A k \in 1..Len(plan.sprints) :
                    plan.sprints[k].id = <<"SPRINT", k>>

C9_Witness ==
    /\ llm = "raised"
    /\ pc = "done"
    /\ time_horizon = "half_year"
    /\ Len(plan.sprints) = 12
    /\ Len(plan.epics) = 1

\* C10: sprint i (0-based) starts at today + 14*i days and ends 13 days later,
\* so each sprint starts the day after the previous one ends and no two sprint
\* windows overlap, for every horizon.
C10_SprintWindows ==
    pc \in {"bucket", "allocated", "done"} =>
        /\ \A k \in 1..Len(sprints) :
              /\ sprints[k].start_date = today + 14 * (k - 1)
              /\ sprints[k].end_date = sprints[k].start_date + 13
        /\ \A k \in 1..(Len(sprints) - 1) :
              sprints[k + 1].start_date = sprints[k].end_date + 1
        /\ \A a, b \in 1..Len(sprints) :
              a < b => sprints[a].end_date < sprints[b].start_date

C10_Witness ==
    /\ pc = "allocated"
    /\ time_horizon = "year"
    /\ today = 738000
    /\ Len(sprints) = 24
    /\ sprints[24].end_date = 738000 + 335

\* C11: the number of sprints _allocate_sprints returns is looked up from the
\* horizon alone: month 2, quarter 6, half_year 12, year 24, anything else 4,
\* whatever the number of tasks; an unrecognized horizon is not an error (the
\* call goes on to create its sprints).
C11_SprintCount ==
    /\ pc \in {"bucket", "allocated", "done"} =>
          /\ time_horizon = "month" => Len(sprints) = 2
          /\ time_horizon = "quarter" => Len(sprints) = 6
          /\ time_horizon = "half_year" => Len(sprints) = 12
          /\ time_horizon = "year" => Len(sprints) = 24
          /\ time_horizon \notin {"month", "quarter", "half_year", "year"} =>
                Len(sprints) = 4
    /\ pc = "allocate" => ENABLED CreateSprints

C11_Witness ==
    /\ mode = "allocate"
    /\ pc = "allocated"
    /\ time_horizon = "decade"
    /\ Len(all_tasks) = MaxTasks
    /\ Len(sprints) = 4

\* C12: after _allocate_sprints every sprint but the last holds at most 5 task
\* ids, a sprint holds a task id only if every earlier sprint holds exactly 5,
\* and only the last sprint may hold more than 5.
C12_FixedCapacity ==
    AllocateReturned =>
        /\ \A k \in 1..(Len(sprints) - 1) : Len(sprints[k].task_ids) <= 5
        /\ \A k \in 1..Len(sprints) :
              sprints[k].task_ids # <<>> =>
                  \A j \in 1..(k - 1) : Len(sprints[j].task_ids) = 5

\* The last sprint holds the surplus.
C12_Witness ==
    /\ mode = "allocate"
    /\ pc = "allocated"
    /\ time_horizon = "month"
    /\ Len(sprints) = 2
    /\ Len(sprints[1].task_ids) = 5
    /\ Len(sprints[2].task_ids) = 6

RECURSIVE IdsOf(_)
IdsOf(entities) ==
    IF entities = <<>> THEN <<>> ELSE <<Head(entities).id>> \o IdsOf(Tail(entities))

RECURSIVE HeldIds(_)
HeldIds(ss) ==
    IF ss = <<>> THEN <<>> ELSE Head(ss).task_ids \o HeldIds(Tail(ss))

\* C13: while the tasks are walked the sprints' task_ids, concatenated in
\* sprint order, are the ids of the tasks walked so far in the order of the
\* task list (all of them once _allocate_sprints has returned), and the
\* active sprint index never decreases.
C13_OrderPreserved ==
    /\ []((pc = "bucket" /\ all_tasks # <<>>) =>
             HeldIds(sprints) = IdsOf(SubSeq(all_tasks, 1, task_pos)))
    /\ []((AllocateReturned /\ all_tasks # <<>>) =>
             HeldIds(sprints) = IdsOf(all_tasks))
    /\ [][sprint_index' >= sprint_index]_vars

C13_Witness ==
    /\ mode = "allocate"
    /\ pc = "allocated"
    /\ Len(all_tasks) = MaxTasks
    /\ all_tasks[1].id = <<"TASK", MaxTasks>>
    /\ sprint_index = 2
    /\ sprints[3].task_ids # <<>>
    /\ HeldIds(sprints) = IdsOf(all_tasks)

TaskIds(from, to) == [k \in 1..(to - from + 1) |-> <<"TASK", from + k - 1>>]

\* C14: the outline "EPIC: Auth / STORY: Login / STORY: Logout / EPIC: Billing
\* / STORY: Invoice" parses into 2 epics, 3 stories and 9 tasks TASK-1..TASK-9;
\* allocated with horizon quarter it gives 6 sprints, sprint 1 holding
\* TASK-1..TASK-5, sprint 2 TASK-6..TASK-9 and sprints 3 to 6 nothing.
C14_SpecExample ==
    (/\ mode = "parse"
     /\ time_horizon = "quarter"
     /\ outline = <<<<"EPIC:", " ", "Auth">>,
                    <<" ", " ", "STORY:", " ", "Login">>,
                    <<" ", " ", "STORY:", " ", "Logout">>,
                    <<"EPIC:", " ", "Billing">>,
                    <<" ", " ", "STORY:", " ", "Invoice">>>>) =>
        /\ ParseReturned =>
              /\ Len(epics) = 2
              /\ epics[1].title = <<"Auth">> /\ epics[2].title = <<"Billing">>
              /\ Len(epics[1].stories) = 2 /\ Len(epics[2].stories) = 1
              /\ epics[1].stories[1].title = <<"Login">>
              /\ epics[1].stories[2].title = <<"Logout">>
              /\ epics[2].stories[1].title = <<"Invoice">>
              /\ IdsOf(all_tasks) = TaskIds(1, 9)
        /\ AllocateReturned =>
              /\ Len(sprints) = 6
              /\ sprints[1].task_ids = TaskIds(1, 5)
              /\ sprints[2].task_ids = TaskIds(6, 9)
              /\ \A k \in 3..6 : sprints[k].task_ids = <<>>

C14_Witness ==
    /\ mode = "parse"
    /\ pc = "allocated"
    /\ time_horizon = "quarter"
    /\ outline = ExampleTagged
    /\ Len(all_tasks) = 9
    /\ Len(sprints[2].task_ids) = 4

\* C15: in every plan create_plan_from_vision returns, every task id held by
\* a sprint is the id of a task under some story of some epic of the plan, and
\* every task under the plan's epics is held by some sprint.
C15_SprintTasksExist ==
    pc = "done" =>
        LET plan_tasks == TasksOfStories(StoriesOfPlan(plan.epics))
            held == HeldIds(plan.sprints)
        IN  /\ \A j \in 1..Len(held) :
                  \E t \in 1..Len(plan_tasks) : plan_tasks[t].id = held[j]
            /\ \A t \in 1..Len(plan_tasks) :
                  \E j \in 1..Len(held) : held[j] = plan_tasks[t].id

C15_Witness ==
    /\ pc = "done"
    /\ llm = "returned"
    /\ Len(TasksOfStories(StoriesOfPlan(plan.epics))) = 6
    /\ Len(plan.sprints[1].task_ids) = 5
    /\ Len(plan.sprints[2].task_ids) = 1

Last(s) == s[Len(s)]

\* The template a goal string is an instance of, "none" when it is of none.
TemplateOf(g) ==
    IF Len(g) < 3 \/ Last(g) # "." THEN "none"
    ELSE IF /\ Head(g) = "Foundations for '"
            /\ \E j \in 2..(Len(g) - 1) : g[j] = "'. Focus on "
         THEN "foundations"
    ELSE IF Head(g) = "Core implementation for " THEN "core"
    ELSE IF Head(g) = "Refinement and validation for " THEN "refinement"
    ELSE IF Head(g) = "Ongoing improvements across " THEN "ongoing"
    ELSE "none"

TemplateAt(i) ==
    IF i = 0 THEN "foundations"
    ELSE IF i = 1 THEN "core"
    ELSE IF i = 2 THEN "refinement"
    ELSE "ongoing"

\* C16 as stated: every goal set by _allocate_sprints, whether the task list
\* is empty or not, is an instance of the template its sprint's index selects
\* (0 foundations, 1 core implementation, 2 refinement and validation,
\* above 2 ongoing improvements).
C16_Original ==
    AllocateReturned =>
        \A k \in 1..Len(sprints) : TemplateOf(sprints[k].goal) = TemplateAt(k - 1)

\* C16, amended: for a non-empty task list every goal is an instance of the
\* template its sprint's index selects; for an empty task list the goals are
\* the fixed strings "Initial setup and discovery." (index 0), "Core
\* implementation." (index 1) and "Ongoing improvements." (every index above 1).
C16_GoalTemplates ==
    AllocateReturned =>
        \A k \in 1..Len(sprints) :
            IF all_tasks # <<>>
            THEN TemplateOf(sprints[k].goal) = TemplateAt(k - 1)
            ELSE sprints[k].goal =
                     IF k = 1 THEN <<"Initial setup and discovery.">>
                     ELSE IF k = 2 THEN <<"Core implementation.">>
                     ELSE <<"Ongoing improvements.">>

C16_Witness ==
    /\ mode = "allocate"
    /\ pc = "allocated"
    /\ all_tasks # <<>>
    /\ Len(sprints) = 6
    /\ TemplateOf(sprints[1].goal) = "foundations"
    /\ TemplateOf(sprints[3].goal) = "refinement"
    /\ TemplateOf(sprints[6].goal) = "ongoing"

\* The text of line i of the outline, as the loop sees it.
LineText(i) == Stripped(outline[i])

\* Line i reads as a header: "EPIC:", "STORY:", "<integer>. <title>" or "- Story:".
HeaderText(i) ==
    \/ StartsWith(LineText(i), <<"EPIC:">>)
    \/ StartsWith(LineText(i), <<"STORY:">>)
    \/ NumberedHeader(LineText(i))
    \/ StartsWith(LineText(i), <<"-", " ", "Story:">>)

\* The line that opened the k-th story.
OpenLineOf(k) ==
    CHOOSE i \in 1..Len(branches) :
        /\ branches[i] \in {"story", "dash_story"}
        /\ Cardinality({j \in 1..i : branches[j] \in {"story", "dash_story"}}) = k

\* The first header line after line p, one past the end when there is none.
BlockEnd(p) ==
    LET later == {i \in (p + 1)..Len(outline) : HeaderText(i)}
    IN  IF later = {} THEN Len(outline) + 1
        ELSE CHOOSE i \in later : \A j \in later : i <= j

CriteriaLinesOf(p) ==
    {i \in (p + 1)..(BlockEnd(p) - 1) :
        StartsWith(LineText(i), <<"Acceptance criteria:">>)}

\* The criteria the block of the story opened at line p states: the non-empty
\* texts of the dash lines between its last "Acceptance criteria:" line and the
\* end of its block, none when it has no such line.
StatedCriteria(p) ==
    IF CriteriaLinesOf(p) = {} THEN <<>>
    ELSE LET c == CHOOSE i \in CriteriaLinesOf(p) :
                      \A j \in CriteriaLinesOf(p) : j <= i
             window == [n \in 1..(BlockEnd(p) - 1 - c) |-> c + n]
             IsCriterion(i) == /\ StartsWith(LineText(i), <<"-">>)
                               /\ Criterion(LineText(i)) # <<>>
             kept == SelectSeq(window, IsCriterion)
         IN  [n \in 1..Len(kept) |-> Criterion(LineText(kept[n]))]

\* C17: the acceptance criteria of every story that a line of the outline
\* opened are exactly the dash lines that lie after the story's own
\* "Acceptance criteria:" line and before the next header line; a story whose
\* block has no "Acceptance criteria:" line has no criteria.
C17_NoCriteriaBleed ==
    ParseReturned =>
        \A j \in 1..Len(ResultStories) :
            LET story == ResultStories[j]
            IN  story.id[2] <= StoriesOpened =>
                    story.acceptance_criteria = StatedCriteria(OpenLineOf(story.id[2]))

C17_Witness ==
    /\ mode = "parse"
    /\ pc = "parsed"
    /\ outline = ExampleLegacy
    /\ Len(ResultStories) = 2
    /\ ResultStories[1].acceptance_criteria = <<<<"note">>>>
    /\ ResultStories[2].acceptance_criteria = <<>>

EpicsOpened ==
    Cardinality({i \in 1..Len(branches) : branches[i] \in {"epic", "numbered"}})

\* The epics of the result that a line of the outline opened: all but the
\* auto-created "General" epic and the fallback epic.
EpicsFromLines ==
    {j \in 1..Len(epics) :
        epics[j].description \notin
            {<<"Auto-created epic for orphan stories.">>,
             <<"Fallback epic generated when outline parsing fails.">>}}

\* C18: no opened entity is lost: every line that opens an epic yields exactly
\* one epic in the result, and every line that opens a story yields exactly one
\* story in the result, listed under the epic that was current when it was
\* opened, in textual order.
C18_NoEntityLost ==
    ParseReturned =>
        /\ Cardinality(EpicsFromLines) = EpicsOpened
        /\ LET Opened(id) == id[2] <= StoriesOpened
           IN  SelectSeq(IdsOf(ResultStories), Opened) =
                   [k \in 1..StoriesOpened |-> <<"STORY", k>>]
        /\ \A e \in 1..Len(epics) : \A k \in 1..Len(epics[e].stories) :
              epics[e].stories[k].epic_id = epics[e].id

\* C19: every line starting with "- Story: <title>" that is read while an epic
\* is open opens a story titled <title> under that epic, wherever in the
\* epic's block the line stands.
C19_DashStoryOpensStory ==
    [][(/\ pc = "lines"
        /\ pos < Len(outline)
        /\ pos' = pos + 1
        /\ current_epic # None
        /\ StartsWith(CurrentLine, <<"-", " ", "Story:">>))
       => /\ current_story' # None
          /\ current_story'.id = generate_id("STORY", story_counter)
          /\ current_story'.title = Strip(Drop(CurrentLine, 3))
          /\ current_story'.epic_id = current_epic.id]_vars

\* C20: an epic's description is set from a dash line only when that dash line
\* immediately follows the line that opened the epic, and at most one line per
\* epic is captured.
C20_DescriptionOnlyAfterHeader ==
    [][(/\ pc = "lines"
        /\ pos < Len(outline)
        /\ pos' = pos + 1
        /\ current_epic # None
        /\ current_epic' # None
        /\ current_epic'.id = current_epic.id
        /\ current_epic'.description # current_epic.description)
       => /\ pos >= 1
          /\ \/ StartsWith(LineText(pos), <<"EPIC:">>)
             \/ NumberedHeader(LineText(pos))
          /\ current_epic.description = <<>>]_vars

\* C21: after an "Acceptance criteria:" line, dash lines are accumulated as
\* criteria of the current story only until the first non-dash line or new
\* header: whenever a line is accumulated, an "Acceptance criteria:" line stands
\* before it and every line between the two is a dash line.
C21_AccumulationStopsAtNonDash ==
    [][(/\ pc = "lines"
        /\ pos < Len(outline)
        /\ pos' = pos + 1
        /\ Len(temp_criteria') > Len(temp_criteria))
       => \E c \in 1..pos :
              /\ StartsWith(LineText(c), <<"Acceptance criteria:">>)
              /\ \A k \in (c + 1)..pos : StartsWith(LineText(k), <<"-">>)]_vars

RemoveAt(lines, i) == SubSeq(lines, 1, i - 1) \o SubSeq(lines, i + 1, Len(lines))

InsertAt(lines, i, line) ==
    SubSeq(lines, 1, i) \o <<line>> \o SubSeq(lines, i + 1, Len(lines))

\* The outline without the lines the loop ignored.
RECURSIVE WithoutIgnored(_, _)
WithoutIgnored(lines, bs) ==
    IF lines = <<>> THEN <<>>
    ELSE (IF Head(bs) = "ignored" THEN <<>> ELSE <<Head(lines)>>)
         \o WithoutIgnored(Tail(lines), Tail(bs))

Returned == [epics |-> epics, all_tasks |-> all_tasks]

\* C22: a line that matches none of the classifiers in the current state
\* leaves the current epic, the current story, the criteria flag and buffer,
\* the epic-title flag, the counters and the result list unchanged; deleting
\* ignored lines from an outline, or inserting a blank line, a section heading
\* or unrecognized text anywhere in it, does not change the parse result.
C22_IgnoredLinesHaveNoEffect ==
    /\ [][(/\ pc = "lines"
           /\ pos < Len(outline)
           /\ pos' = pos + 1
           /\ Branch(CurrentLine, current_epic, current_story,
                     collecting_criteria, last_line_was_epic_title) = "ignored")
          => UNCHANGED <<epics, all_tasks, epic_counter, story_counter,
                         task_counter, current_epic, current_story,
                         collecting_criteria, temp_criteria,
                         last_line_was_epic_title>>]_vars
    /\ [](pc = "parsed" =>
            /\ Returned = parse_outline_to_models(outline)
            /\ Returned = parse_outline_to_models(WithoutIgnored(outline, branches))
            /\ \A i \in 1..Len(outline) :
                  branches[i] = "ignored" =>
                      Returned = parse_outline_to_models(RemoveAt(outline, i))
            /\ \A i \in 0..Len(outline) : \A line \in {Blank, Heading, Garbage} :
                  Returned = parse_outline_to_models(InsertAt(outline, i, line)))

C22_Witness ==
    /\ mode = "parse"
    /\ pc = "parsed"
    /\ outline = <<NumberedCore, Blank, DashNote>>
    /\ branches = <<"numbered", "ignored", "epic_description">>
    /\ epics[1].description = <<"note">>
    /\ parse_outline_to_models(<<NumberedCore, DashNote>>) = Returned

\* C23: counter state never leaks across calls: the result of parsing an
\* outline (ids, titles, structure) is the result the parser gives for that
\* outline alone, whatever was parsed before it; every call starts with its
\* counters at 1 and numbers its first epic, story and task 1.
C23_NoCounterLeak ==
    /\ pc = "lines" => Locals = RunLines(StartLocals, SubSeq(outline, 1, pos))
    /\ (pc = "lines" /\ pos = 0) =>
          epic_counter = 1 /\ story_counter = 1 /\ task_counter = 1
    /\ pc = "parsed" =>
          /\ Returned = parse_outline_to_models(outline)
          /\ epics[1].id = <<"EPIC", 1>>
          /\ all_tasks # <<>> => all_tasks[1].id = <<"TASK", 1>>

C23_Witness ==
    /\ mode = "parse"
    /\ pc = "parsed"
    /\ parse_calls = 2
    /\ outline = ExampleTagged
    /\ Len(epics) = 2
    /\ epics[1].id = <<"EPIC", 1>>
    /\ ResultStories[1].id = <<"STORY", 1>>
    /\ IdsOf(all_tasks) = TaskIds(1, 9)

\* The parser returned the fallback epic.
FallbackReturned ==
    /\ ParseReturned
    /\ Len(epics) = 1
    /\ epics[1].description = <<"Fallback epic generated when outline parsing fails.">>

\* C24: whenever the parser returns the fallback, the triple is the same for
\* every such input, identifiers included: epic EPIC-1, story STORY-1 with
\* epic_id EPIC-1, task TASK-1 with story_id STORY-1.
C24_FallbackIdentifiers ==
    FallbackReturned =>
        /\ epics[1].id = <<"EPIC", 1>>
        /\ Len(epics[1].stories) = 1
        /\ epics[1].stories[1].id = <<"STORY", 1>>
        /\ epics[1].stories[1].epic_id = <<"EPIC", 1>>
        /\ Len(epics[1].stories[1].tasks) = 1
        /\ epics[1].stories[1].tasks[1].id = <<"TASK", 1>>
        /\ epics[1].stories[1].tasks[1].story_id = <<"STORY", 1>>
        /\ epics = <<FallbackEpic(<<"EPIC", 1>>, <<"STORY", 1>>, <<"TASK", 1>>)>>

\* The title of the epic whose story owns the task.
TitleOfTask(task_id) ==
    LET owners == {e \in 1..Len(epics) :
                      \E k \in 1..Len(epics[e].stories) :
                          \E t \in 1..Len(epics[e].stories[k].tasks) :
                              epics[e].stories[k].tasks[t].id = task_id}
    IN  epics[CHOOSE e \in owners : TRUE].title

\* The epic titles sprint k reaches through its tasks, in task order.
TitlesReached(k) ==
    [j \in 1..Len(sprints[k].task_ids) |-> TitleOfTask(sprints[k].task_ids[j])]

RECURSIVE FirstSeen(_)
FirstSeen(s) ==
    IF s = <<>> THEN <<>>
    ELSE LET before == FirstSeen(SubSeq(s, 1, Len(s) - 1))
         IN  IF InSeq(s[Len(s)], before) THEN before ELSE Append(before, s[Len(s)])

\* At most three titles, ", and others" after them when there are more.
Listed(titles) ==
    IF titles = <<>> THEN <<"key epics">>
    ELSE IF Len(titles) > 3
         THEN titles[1] \o <<", ">> \o titles[2] \o <<", ">> \o titles[3]
              \o <<", and others">>
    ELSE Join(titles)

\* C25: for parser-produced epics and tasks, a sprint that is not the last
\* reaches at most 3 distinct epic titles through its tasks, so ", and others"
\* appears only in the goal of the last sprint; every goal lists at most 3
\* epic titles, deduplicated in first-seen order.
C25_AtMostThreeTitles ==
    (AllocateReturned /\ mode \in {"parse", "create"} /\ all_tasks # <<>>) =>
        \A k \in 1..Len(sprints) :
            /\ k < Len(sprints) =>
                  /\ Len(FirstSeen(TitlesReached(k))) <= 3
                  /\ ~InSeq(", and others", sprints[k].goal)
            /\ sprints[k].goal =
                   Goal(k - 1, FirstLine(vision_text), Listed(FirstSeen(TitlesReached(k))))

C25_Witness ==
    /\ mode = "parse"
    /\ pc = "allocated"
    /\ time_horizon = "month"
    /\ outline = ExampleFiveEpics
    /\ Len(FirstSeen(TitlesReached(1))) = 2
    /\ Len(FirstSeen(TitlesReached(2))) = 4
    /\ sprints[2].goal =
           <<"Core implementation for ", "Billing", ", ", "Core", ", ", "Search",
             ", and others", ".">>

====
